---- MODULE Spec2Model ----
(***************************************************************************)
(* Model of app_dashboard.py: the cached loader                            *)
(* load_email_data_from_gsheets (st.cache_data, ttl = 30 s) and the        *)
(* Streamlit script that calls it once per run and renders the views.      *)
(***************************************************************************)
EXTENDS Integers, Sequences, FiniteSets, TLC

VARIABLES
    now,          \* wall clock, in seconds
    source,       \* what the remote sheet currently holds
    cache,        \* the st.cache_data memo of the loader (one entry, no arguments)
    pc,           \* position of the script / of the loader body
    net,          \* how st.connection and conn.read answer during this run
    clicked,      \* this run was triggered by the "Refresh Data" button
    buttonShown,  \* the page left by the last run shows the button
    df,           \* the script's df (line 60)
    page,         \* what the run has put on the page
    calls,        \* history: one record per call of the loader
    loads,        \* history: number of uncached executions of the loader body
    clears,       \* history: number of st.cache_data.clear() calls
    runs          \* number of script runs started

vars == <<now, source, net, cache, pc, clicked, buttonShown, df, page, calls, loads,
          clears, runs>>

----------------------------------------------------------------------------
(* Bounds of the model *)

MaxRuns == 3
MaxTime == 40
TickStep == 10
MaxRows == 2

----------------------------------------------------------------------------
(* Program constants *)

TTL == 30

numeric_cols ==
    {"output.confidence", "output.sentiment_score", "output.priority_score"}

DateCol == "output.extracted_date_of_issue"

required_columns ==
    {"output.extracted_requested_action",
     "output.routing_recommendation.department",
     "output.extracted_date_of_issue",
     "output.predicted_intent",
     "output.extracted_product",
     "output.urgency_level"}

CategoryCols == required_columns \ {DateCol}

AllCols == required_columns \cup numeric_cols

----------------------------------------------------------------------------
(* Cells.  A cell is NaN (missing), a string, a float or a timestamp.       *)

NaN == [k |-> "nan", s |-> "", n |-> 0, t |-> 0]
Str(s) == [k |-> "str", s |-> s, n |-> 0, t |-> 0]
Num(n) == [k |-> "num", s |-> "", n |-> n, t |-> 0]
Ts(day, minute) == [k |-> "ts", s |-> "", n |-> day, t |-> minute]

IsNull(c) == c.k = "nan"

\* The strings float() accepts, with their values (in tenths).
FloatOf == [s \in {"0.7", "3"} |-> IF s = "0.7" THEN 7 ELSE 30]

\* The strings the datetime parser accepts: <<day of 2024, minute of day>>.
DateOf ==
    [s \in {"2024-01-01 09:00", "2024-01-01 17:00", "2024-01-02 09:00"} |->
        IF s = "2024-01-01 09:00" THEN <<1, 540>>
        ELSE IF s = "2024-01-01 17:00" THEN <<1, 1020>>
        ELSE <<2, 540>>]

----------------------------------------------------------------------------
(* Tables.  A DataFrame is its columns and its rows, in order.              *)

Frame(cols, rows) == [kind |-> "frame", cols |-> cols, rows |-> rows]

\* pd.DataFrame(): no columns, no rows.
EmptyFrame == Frame({}, << >>)

\* A payload that is not a table (conn.read handed back None).
NotAFrame == [kind |-> "none", cols |-> {}, rows |-> << >>]

\* df.empty
IsEmpty(f) == f.cols = {} \/ Len(f.rows) = 0

\* A row all of whose cells are NaN.
AllNull(f, row) == \A c \in f.cols : IsNull(row[c])

\* df.dropna(how='any'): what line 37 would do without how='all'
DropNaAny(f) ==
    Frame(f.cols, SelectSeq(f.rows, LAMBDA r : \A c \in f.cols : ~IsNull(r[c])))

\* df.dropna(how='all'), line 37
DropNaAll(f) ==
    Frame(f.cols, SelectSeq(f.rows, LAMBDA r : ~AllNull(f, r)))

\* df.fillna(''), line 38
FillNa(f) ==
    Frame(f.cols,
          [i \in 1..Len(f.rows) |->
              [c \in f.cols |-> IF IsNull(f.rows[i][c]) THEN Str("") ELSE f.rows[i][c]]])

\* a coercion that puts 0 where the cell does not parse
ToNumericZero(c) ==
    IF c.k = "num" THEN c
    ELSE IF c.k = "str" /\ c.s \in DOMAIN FloatOf THEN Num(FloatOf[c.s])
    ELSE Num(0)

\* pd.to_numeric(cell, errors='coerce'), line 44: float(cell), NaN when the
\* cell does not parse
ToNumeric(c) ==
    IF c.k = "num" THEN c
    ELSE IF c.k = "str" /\ c.s \in DOMAIN FloatOf THEN Num(FloatOf[c.s])
    ELSE NaN

\* lines 42-44: coerce the numeric columns that are present
CoerceNumeric(f) ==
    Frame(f.cols,
          [i \in 1..Len(f.rows) |->
              [c \in f.cols |->
                  IF c \in numeric_cols THEN ToNumeric(f.rows[i][c])
                  ELSE f.rows[i][c]]])

\* lines 36-46: the cleaning steps of the loader
CleanData(f) == CoerceNumeric(FillNa(DropNaAll(f)))

\* pd.to_datetime(cell, errors='coerce'), line 170: NaT when the cell does
\* not parse
ToDatetime(c) ==
    IF c.k = "ts" THEN c
    ELSE IF c.k = "str" /\ c.s \in DOMAIN DateOf
         THEN Ts(DateOf[c.s][1], DateOf[c.s][2])
    ELSE NaN

\* The cells of column col, in row order.
Column(f, col) == [i \in 1..Len(f.rows) |-> f.rows[i][col]]

\* len(series.dropna())
CountNotNull(series) == Cardinality({i \in DOMAIN series : ~IsNull(series[i])})

\* series.value_counts(): one entry per distinct non-NaN value
ValueCounts(series) ==
    [v \in {series[i] : i \in {j \in DOMAIN series : ~IsNull(series[j])}} |->
        Cardinality({i \in DOMAIN series : series[i] = v})]

NoCounts == [v \in {} |-> 0]

----------------------------------------------------------------------------
(* The loader body, lines 20-49.  conn is the outcome of st.connection, r1  *)
(* and r2 the outcomes of the two conn.read calls: "raise", "frame" (the    *)
(* sheet comes back as a table) or "none" (the payload is not a table).     *)

ReadOutcomes == {"raise", "frame", "none"}

Net(conn, r1, r2) == [conn |-> conn, r1 |-> r1, r2 |-> r2]

\* everything is reachable and answers with the sheet
Healthy == Net("ok", "frame", "frame")

\* the answers a run can meet (an answer the body never asks for is left healthy)
NetStates ==
    {Net("raise", "frame", "frame")}
    \cup {Net("ok", r1, "frame") : r1 \in ReadOutcomes \ {"raise"}}
    \cup {Net("ok", "raise", r2) : r2 \in ReadOutcomes}

Attempt(strategy, outcome) == [strategy |-> strategy, outcome |-> outcome]

Payload(outcome, sheet) == IF outcome = "frame" THEN sheet ELSE NotAFrame

Outcome(value, cause, attempts, raised) ==
    [value |-> value, cause |-> cause, attempts |-> attempts, raised |-> raised]



\* a loader without the outer handler: the exception reaches the script
OnOuterExceptionReraise(attempts) ==
    Outcome(NotAFrame, "", attempts, TRUE)

\* lines 47-49: except Exception -> st.error(...); return pd.DataFrame()
OnOuterException(attempts) ==
    Outcome(EmptyFrame, "Error loading data from Google Sheets", attempts, FALSE)

\* lines 32-34: except Exception -> st.error(...); return pd.DataFrame()
OnReadFailure(attempts) ==
    Outcome(EmptyFrame, "Failed to read from Google Sheets", attempts, FALSE)

\* lines 36-46 on what conn.read returned; a payload with no dropna raises
CleanAndReturn(payload, attempts) ==
    IF payload.kind # "frame" THEN OnOuterException(attempts)
    ELSE Outcome(CleanData(payload), "", attempts, FALSE)

\* a loader that reads the worksheet "Sheet1" whatever Method 1 did
TryAlternateAlways(r1) == TRUE

\* line 28: Method 2 is inside the except clause of Method 1
TryAlternate(r1) == r1 = "raise"

LoadBody(conn, r1, r2, sheet) ==
    IF conn = "raise" THEN OnOuterException(<< >>)
    ELSE LET a1 == <<Attempt("primary", r1)>>
             a2 == a1 \o <<Attempt("alternate", r2)>>
         IN  IF ~TryAlternate(r1) THEN CleanAndReturn(Payload(r1, sheet), a1)
             ELSE IF r2 = "raise" THEN OnReadFailure(a2)
             ELSE CleanAndReturn(Payload(r2, sheet), a2)

----------------------------------------------------------------------------
(* The memo of @st.cache_data(ttl=30), line 15.                             *)

EmptyCache == [full |-> FALSE, value |-> EmptyFrame, cause |-> "", storedAt |-> 0]

\* a loader without the decorator: every call runs the body
CacheValidNever == FALSE

\* an entry is served while it is younger than ttl
CacheValid == cache.full /\ now - cache.storedAt < TTL

\* a memo that keeps only the loads that brought rows back
StoreSuccessOnly(value, cause) ==
    IF IsEmpty(value) THEN cache
    ELSE [full |-> TRUE, value |-> value, cause |-> cause, storedAt |-> now]

\* the memo after the body returned value: whatever is returned is stored,
\* with the st.error it reported, stamped with the time of the store
StoreEntry(value, cause) ==
    [full |-> TRUE, value |-> value, cause |-> cause, storedAt |-> now]

\* a button that only reruns the script
ClearForgotten == cache

\* st.cache_data.clear(), line 246
ClearedCache == EmptyCache

----------------------------------------------------------------------------
(* The page a run builds.                                                   *)

View(shown, counts) == [shown |-> shown, counts |-> counts]

BlankPage ==
    [msgs |-> {}, nodata |-> {}, total |-> -1, latest |-> << >>,
     views |-> [c \in required_columns |-> View(FALSE, NoCounts)]]

\* st.error / st.warning / st.info
Report(p, msg) == [p EXCEPT !.msgs = @ \cup {msg}]

\* the st.error of a failed load, shown when the loader returns
ReportCause(p, cause) == IF cause = "" THEN p ELSE Report(p, cause)

\* line 79
missing_columns(f) == required_columns \ f.cols

\* lines 153-164, 189-198, 204-213, 217-226, 230-242: one categorical chart
CategoryView(f, col) ==
    IF col \in f.cols /\ CountNotNull(Column(f, col)) > 0
    THEN View(TRUE, ValueCounts(Column(f, col)))
    ELSE View(FALSE, NoCounts)

\* line 170: the date column converted in place
WithDates(f) ==
    Frame(f.cols,
          [i \in 1..Len(f.rows) |->
              [c \in f.cols |->
                  IF c = DateCol THEN ToDatetime(f.rows[i][c]) ELSE f.rows[i][c]]])

\* lines 172-183: groupby(date).size() over the rows with a valid date
DateView(f) ==
    IF CountNotNull(Column(WithDates(f), DateCol)) > 0
    THEN View(TRUE, ValueCounts(Column(WithDates(f), DateCol)))
    ELSE View(FALSE, NoCounts)

\* lines 85-242
RenderedPage(p, f) ==
    LET charts ==
            [c \in required_columns |->
                IF c = DateCol
                THEN IF DateCol \in f.cols THEN DateView(f) ELSE View(FALSE, NoCounts)
                ELSE CategoryView(f, c)]
    IN  [msgs |-> p.msgs \cup
                  (IF DateCol \in f.cols THEN {} ELSE {"Error creating time chart"}),
         nodata |-> {c \in required_columns \cap f.cols : ~charts[c].shown},
         total |-> Len(f.rows),
         latest |-> <<f.rows[Len(f.rows)]>>,
         views |-> charts]

----------------------------------------------------------------------------
(* History of the loader's calls.                                           *)

Call(hit, conn, res) ==
    [at |-> now, hit |-> hit, conn |-> conn, epoch |-> clears, value |-> res.value,
     cause |-> res.cause, attempts |-> res.attempts,
     loads |-> IF hit THEN loads ELSE loads + 1, ending |-> "running"]

\* the run of the last call ended: "nodata", "missing", "rendered"
Ended(how) == [calls EXCEPT ![Len(calls)].ending = how]

----------------------------------------------------------------------------
(* Sheets the remote source may hold.                                       *)

CategoryCells == {NaN, Str("High")}
DateCells == {NaN, Str("not-a-date"), Str("2024-01-01 09:00"), Str("2024-01-01 17:00")}
NumericCells == {NaN, Str("abc"), Str("0.7")}

\* a sheet row: c in the categorical columns, d in the date column, n in the
\* numeric columns
Row(cols, c, d, n) ==
    [col \in cols |->
        IF col \in numeric_cols THEN n ELSE IF col = DateCol THEN d ELSE c]

ColumnSets ==
    {AllCols, AllCols \ {"output.confidence"}, AllCols \ {"output.urgency_level"}}

RowsOver(cols) ==
    {Row(cols, c, d, n) : c \in CategoryCells, d \in DateCells, n \in NumericCells}

\* the sheets the source moves between while the dashboard runs
SampleSheets ==
    {Frame(AllCols, <<Row(AllCols, Str("High"), Str("2024-01-01 09:00"), Str("0.7")),
                      Row(AllCols, NaN, NaN, NaN),
                      Row(AllCols, Str("Low"), Str("2024-01-02 09:00"), Str("3"))>>),
     Frame(AllCols, <<Row(AllCols, Str("Low"), Str("not-a-date"), Str("abc"))>>),
     Frame(AllCols \ {"output.urgency_level"},
           <<Row(AllCols \ {"output.urgency_level"}, Str("High"), NaN, Str("0.7"))>>)}

----------------------------------------------------------------------------
(* Actions                                                                  *)

\* time passes between two runs
Tick ==
    /\ pc = "idle"
    /\ now + TickStep <= MaxTime
    /\ now' = now + TickStep
    /\ UNCHANGED <<source, net, cache, pc, clicked, buttonShown, df, page, calls,
                   loads, clears, runs>>

\* st_autorefresh (line 55), a page load, or a click on the button of the page
StartRun ==
    /\ pc = "idle"
    /\ runs < MaxRuns
    /\ \E click \in {FALSE, buttonShown} : clicked' = click
    /\ net' \in NetStates
    /\ pc' = "load"
    /\ page' = BlankPage
    /\ runs' = runs + 1
    /\ UNCHANGED <<now, source, cache, buttonShown, df, calls, loads, clears>>

\* line 60 through the decorator of line 15: a hit serves the memo, a miss runs
\* the body and stores what it returns
Load ==
    /\ pc = "load"
    /\ IF CacheValid
       THEN /\ df' = cache.value
            /\ page' = ReportCause(page, cache.cause)
            /\ calls' = Append(calls, Call(TRUE, "unused", Outcome(cache.value, cache.cause, << >>, FALSE)))
            /\ pc' = "check_empty"
            /\ UNCHANGED <<cache, loads>>
       ELSE LET res == LoadBody(net.conn, net.r1, net.r2, source)
            IN  /\ loads' = loads + 1
                /\ calls' = Append(calls, Call(FALSE, net.conn, res))
                /\ IF res.raised
                   THEN /\ pc' = "raised"
                        /\ UNCHANGED <<cache, df, page>>
                   ELSE /\ cache' = StoreEntry(res.value, res.cause)
                        /\ df' = res.value
                        /\ page' = ReportCause(page, res.cause)
                        /\ pc' = "check_empty"
    /\ UNCHANGED <<now, source, net, clicked, buttonShown, clears, runs>>

\* lines 62-64
CheckEmpty ==
    /\ pc = "check_empty"
    /\ IF IsEmpty(df)
       THEN /\ page' = Report(page, "No email data available")
            /\ pc' = "idle"
            /\ buttonShown' = FALSE
            /\ calls' = Ended("nodata")
       ELSE /\ pc' = "check_columns"
            /\ UNCHANGED <<page, buttonShown, calls>>
    /\ UNCHANGED <<now, source, net, cache, clicked, df, loads, clears, runs>>

\* a script without the st.stop() of line 83
CheckColumnsLenient ==
    /\ pc = "check_columns"
    /\ pc' = "render"
    /\ UNCHANGED <<now, source, net, cache, clicked, buttonShown, df, page, calls, loads,
                   clears, runs>>

\* lines 79-83
CheckColumns ==
    /\ pc = "check_columns"
    /\ IF missing_columns(df) # {}
       THEN /\ page' = Report(page, "Missing required columns")
            /\ pc' = "idle"
            /\ buttonShown' = FALSE
            /\ calls' = Ended("missing")
       ELSE /\ pc' = "render"
            /\ UNCHANGED <<page, buttonShown, calls>>
    /\ UNCHANGED <<now, source, net, cache, clicked, df, loads, clears, runs>>

\* lines 85-242; lines 120-121 index two columns without a check
Render ==
    /\ pc = "render"
    /\ IF {"output.extracted_requested_action",
           "output.routing_recommendation.department"} \subseteq df.cols
       THEN /\ page' = RenderedPage(page, df)
            /\ df' = IF DateCol \in df.cols THEN WithDates(df) ELSE df
            /\ pc' = "button"
       ELSE /\ pc' = "raised"
            /\ UNCHANGED <<page, df>>
    /\ UNCHANGED <<now, source, net, cache, clicked, buttonShown, calls, loads, clears, runs>>

\* lines 245-247
Button ==
    /\ pc = "button"
    /\ calls' = Ended("rendered")
    /\ IF clicked
       THEN /\ cache' = ClearedCache
            /\ clears' = clears + 1
            /\ pc' = "load"
            /\ page' = BlankPage
            /\ clicked' = FALSE
            /\ runs' = runs + 1
            /\ net' \in NetStates
            /\ UNCHANGED buttonShown
       ELSE /\ pc' = "idle"
            /\ buttonShown' = TRUE
            /\ UNCHANGED <<cache, clears, page, clicked, runs, net>>
    /\ UNCHANGED <<now, source, df, loads>>

\* the sheet is edited by its owners
SourceChange ==
    /\ pc = "idle"
    /\ source' \in SampleSheets \ {source}
    /\ UNCHANGED <<now, net, cache, pc, clicked, buttonShown, df, page, calls, loads,
                   clears, runs>>

----------------------------------------------------------------------------
(* Specifications                                                           *)

Start ==
    /\ now = 0
    /\ net = Healthy
    /\ cache = EmptyCache
    /\ pc = "idle"
    /\ clicked = FALSE
    /\ buttonShown = FALSE
    /\ df = EmptyFrame
    /\ page = BlankPage
    /\ calls = << >>
    /\ loads = 0
    /\ clears = 0
    /\ runs = 0

\* the dashboard over time: runs, clicks, cache expiry, a changing sheet
Init == source \in SampleSheets /\ Start

Next ==
    \/ Tick
    \/ SourceChange
    \/ StartRun
    \/ Load
    \/ CheckEmpty
    \/ CheckColumns
    \/ Render
    \/ Button

Spec == Init /\ [][Next]_vars

\* one run of the script, with the source reachable, over every input sheet
\* (every sheet of at most MaxRows rows over one of the column sets)
InitPipeline ==
    /\ \E cols \in ColumnSets : \E k \in 0..MaxRows :
          \E rows \in [1..k -> RowsOver(cols)] : source = Frame(cols, rows)
    /\ Start

FirstRun == runs = 0 /\ StartRun /\ net' = Healthy

NextPipeline ==
    \/ FirstRun
    \/ Load
    \/ CheckEmpty
    \/ CheckColumns
    \/ Render
    \/ Button

SpecPipeline == InitPipeline /\ [][NextPipeline]_vars

----------------------------------------------------------------------------
(* Properties of the cache                                                  *)

\* call j follows call i, in the time-to-live window call i opened by
\* running the body, with no st.cache_data.clear() between the two
SameWindow(i, j) ==
    /\ i < j
    /\ ~calls[i].hit
    /\ calls[j].epoch = calls[i].epoch
    /\ calls[j].at - calls[i].at < TTL

\* both conn.read calls of call i raised
BothReadsFailed(i) ==
    /\ Len(calls[i].attempts) = 2
    /\ calls[i].attempts[2].outcome = "raise"

\* C1: of two calls of the loader in one time-to-live window with no
\* invalidation between them, the second returns the table the first
\* returned and reads nothing from the network: the body ran once for the
\* pair, in the first call.
C1_CacheHitInWindow ==
    \A i \in DOMAIN calls : \A j \in DOMAIN calls :
        SameWindow(i, j) =>
            /\ calls[j].value = calls[i].value
            /\ calls[j].hit
            /\ calls[j].attempts = << >>
            /\ calls[j].loads = calls[i].loads

\* two calls in one window, the sheet having changed since the first
C1_Witness ==
    \E i \in DOMAIN calls : \E j \in DOMAIN calls :
        /\ SameWindow(i, j)
        /\ calls[i].cause = ""
        /\ calls[j].value # CleanData(source)
        /\ calls[j].at > calls[i].at

\* C2: st.cache_data.clear() empties the memo at once, and the next call of
\* the loader runs the body (connection, then conn.read) although the entry
\* it dropped was younger than the time to live.
C2_ClearForcesReload ==
    /\ (calls # << >> /\ clears > calls[Len(calls)].epoch) => ~cache.full
    /\ \A j \in DOMAIN calls :
          (j > 1 /\ calls[j].epoch > calls[j - 1].epoch) =>
              /\ ~calls[j].hit
              /\ calls[j].loads = calls[j - 1].loads + 1
              /\ calls[j].conn = "ok" => Len(calls[j].attempts) >= 1

\* a call right after a clear, less than TTL after the body last ran
C2_Witness ==
    \E j \in DOMAIN calls :
        /\ j > 2
        /\ calls[j].epoch > calls[j - 1].epoch
        /\ ~calls[j - 2].hit
        /\ calls[j - 1].hit
        /\ calls[j].at - calls[j - 2].at < TTL
        /\ Len(calls[j].attempts) >= 1

\* C10: a load in which both reads failed is memoized like any other: the
\* later calls of its window are hits that return the empty table and read
\* nothing, and their runs end in the "no data" stop.
C10_FailureIsCached ==
    \A i \in DOMAIN calls : \A j \in DOMAIN calls :
        (SameWindow(i, j) /\ BothReadsFailed(i)) =>
            /\ calls[j].hit
            /\ calls[j].attempts = << >>
            /\ calls[j].loads = calls[i].loads
            /\ calls[j].value = EmptyFrame
            /\ calls[j].ending \in {"running", "nodata"}
            /\ (j < Len(calls) \/ pc = "idle") => calls[j].ending = "nodata"

\* the sheet is readable again, and the run still stopped on "no data"
C10_Witness ==
    \E i \in DOMAIN calls : \E j \in DOMAIN calls :
        /\ SameWindow(i, j)
        /\ BothReadsFailed(i)
        /\ calls[j].ending = "nodata"
        /\ net = Healthy
        /\ ~IsEmpty(CleanData(source))
        /\ "No email data available" \in page.msgs

----------------------------------------------------------------------------
(* Properties of the loader body                                            *)

\* the environment made call i fail: the connection, both reads, or a
\* payload the cleaning steps cannot work on
Failed(i) ==
    /\ ~calls[i].hit
    /\ \/ calls[i].conn = "raise"
       \/ calls[i].attempts[Len(calls[i].attempts)].outcome # "frame"

\* C3: the loader never raises: whatever fails, the caller gets a table,
\* and a failed load returns the empty table with a cause reported.
C3_NeverRaises ==
    /\ pc # "raised"
    /\ df.kind = "frame"
    /\ \A i \in DOMAIN calls :
          /\ calls[i].value.kind = "frame"
          /\ Failed(i) => (calls[i].value = EmptyFrame /\ calls[i].cause # "")
    /\ (pc = "check_empty" /\ calls[Len(calls)].cause # "") =>
           (calls[Len(calls)].cause \in page.msgs /\ df = EmptyFrame)

\* the payload of the alternate read broke the cleaning steps
C3_Witness ==
    /\ pc = "check_empty"
    /\ Failed(Len(calls))
    /\ Len(calls[Len(calls)].attempts) = 2
    /\ calls[Len(calls)].attempts[2].outcome = "none"
    /\ df = EmptyFrame
    /\ "Error loading data from Google Sheets" \in page.msgs

\* C4: one execution of the body reads at most twice, the primary strategy
\* first and the alternate only after the primary raised; when the
\* alternate raises too the load gives up.
C4_TwoTierFallback ==
    \A i \in DOMAIN calls :
        LET a == calls[i].attempts
        IN  /\ Len(a) <= 2
            /\ Len(a) >= 1 => a[1].strategy = "primary"
            /\ Len(a) = 2 => (a[2].strategy = "alternate" /\ a[1].outcome = "raise")
            /\ (~calls[i].hit /\ calls[i].conn = "ok" /\ a[1].outcome = "raise")
                   => Len(a) = 2
            /\ BothReadsFailed(i) =>
                   /\ calls[i].value = EmptyFrame
                   /\ calls[i].cause = "Failed to read from Google Sheets"

\* a load that read twice and gave up
C4_Witness ==
    \E i \in DOMAIN calls : BothReadsFailed(i) /\ calls[i].value = EmptyFrame

----------------------------------------------------------------------------
(* Properties of the cleaning steps, over every input sheet                 *)

\* the rows of the sheet that are not fully empty, by position
KeptRows(sheet) ==
    {i \in 1..Len(sheet.rows) : \E c \in sheet.cols : sheet.rows[i][c] # NaN}

\* the j-th smallest member of K
Nth(K, j) == CHOOSE i \in K : Cardinality({k \in K : k < i}) = j - 1

\* the loader has returned the cleaned sheet (the one call of a pipeline run)
Cleaned == calls # << >> /\ calls[1].cause = ""

\* C8: cleaning keeps at most the raw rows, all of them exactly when no raw
\* row is fully empty: it removes the fully empty rows and no other row.
C8_RowCount ==
    Cleaned =>
        LET out == calls[1].value
            K == KeptRows(source)
        IN  /\ Len(out.rows) <= Len(source.rows)
            /\ (Len(out.rows) = Len(source.rows)) <=> (K = 1..Len(source.rows))
            /\ Len(out.rows) = Cardinality(K)
            /\ out.cols = source.cols
            /\ \A j \in 1..Len(out.rows) : \A c \in source.cols \ numeric_cols :
                   LET cell == source.rows[Nth(K, j)][c]
                   IN  out.rows[j][c] = IF cell = NaN THEN Str("") ELSE cell

\* a fully empty row before a row with a missing cell: only the first goes
C8_Witness ==
    /\ Cleaned
    /\ Len(source.rows) = 2
    /\ KeptRows(source) = {2}
    /\ \E c \in source.cols : source.rows[2][c] = NaN
    /\ Len(calls[1].value.rows) = 1

\* C9: in every kept row, a cell of a numeric column that does not parse as
\* a number (an empty cell too) becomes null, one that parses becomes its
\* value; the row stays, its other fields are as they were, nothing is
\* raised, and a numeric column the sheet lacks is skipped.
C9_NumericCoercion ==
    (calls # << >> /\ net = Healthy) =>
        LET out == calls[1].value
            K == KeptRows(source)
        IN  /\ calls[1].cause = ""
            /\ pc # "raised"
            /\ out.cols = source.cols
            /\ Len(out.rows) = Cardinality(K)
            /\ \A j \in 1..Len(out.rows) : \A c \in source.cols :
                   LET cell == source.rows[Nth(K, j)][c]
                   IN  IF c \notin numeric_cols
                       THEN out.rows[j][c] = IF cell = NaN THEN Str("") ELSE cell
                       ELSE IF cell.k = "str" /\ cell.s \in DOMAIN FloatOf
                       THEN out.rows[j][c] = Num(FloatOf[cell.s])
                       ELSE out.rows[j][c] = NaN

\* a sheet without the confidence column, one row: "abc" as sentiment score
C9_Witness ==
    /\ calls # << >>
    /\ net = Healthy
    /\ "output.confidence" \notin source.cols
    /\ Len(source.rows) = 1
    /\ source.rows[1]["output.sentiment_score"] = Str("abc")
    /\ calls[1].value.rows[1]["output.sentiment_score"] = NaN
    /\ calls[1].value.rows[1]["output.predicted_intent"] = Str("High")

----------------------------------------------------------------------------
(* Properties of the views                                                  *)

\* the values of column c of f that are neither null nor empty
NonEmptyValues(f, c) ==
    {f.rows[i][c] : i \in 1..Len(f.rows)} \ {NaN, Str("")}

\* C6: the view of a categorical field has one entry per distinct non-empty
\* value, with its number of occurrences, and no entry for null or empty.
C6_CategoryView ==
    pc = "button" =>
        \A c \in CategoryCols :
            LET counts == page.views[c].counts
            IN  /\ DOMAIN counts = NonEmptyValues(df, c)
                /\ \A v \in DOMAIN counts :
                       counts[v] = Cardinality({i \in 1..Len(df.rows) : df.rows[i][c] = v})

\* the records of f whose date is valid and falls on day
OnDay(f, day) ==
    {i \in 1..Len(f.rows) : f.rows[i][DateCol].k = "ts" /\ f.rows[i][DateCol].n = day}

\* C7: the by-date view has one bucket per calendar day, time of day
\* discarded, counting the records of that day; records without a valid
\* date are in no bucket.
C7_DateView ==
    pc = "button" =>
        LET counts == page.views[DateCol].counts
            days == {df.rows[i][DateCol].n :
                        i \in {j \in 1..Len(df.rows) : df.rows[j][DateCol].k = "ts"}}
        IN  /\ \A k \in DOMAIN counts : k.k = "ts" /\ k.n \in days
            /\ \A k1 \in DOMAIN counts : \A k2 \in DOMAIN counts :
                   k1.n = k2.n => k1 = k2
            /\ \A d \in days : \E k \in DOMAIN counts :
                   k.n = d /\ counts[k] = Cardinality(OnDay(df, d))

\* the run ended on a non-empty table that lacks a required column
EndedWithMissingColumn ==
    /\ pc = "idle"
    /\ calls # << >>
    /\ ~IsEmpty(df)
    /\ missing_columns(df) # {}

====
